---- MODULE Spec2Model ----
(***************************************************************************)
(* Model of download.js: the batch transfer pipeline that reads rows,      *)
(* processes them in batches of concurrent transfers (processBatch),       *)
(* collects the fulfilled results and writes manifest.json (main).         *)
(*                                                                         *)
(* JavaScript strings are modelled as sequences of one-character strings,  *)
(* so that startsWith, replace and substring are computed, not assumed.    *)
(* A row is a function from column names to such strings; a column the CSV *)
(* does not have is simply not in the row's DOMAIN (JavaScript undefined). *)
(***************************************************************************)
EXTENDS Integers, Sequences, FiniteSets, TLC

\* ------------------------------------------------------------------------
\* Bounds of the model
\* ------------------------------------------------------------------------
\* Largest number of rows loaded from photos.csv.
MaxRows == 3

\* Number of rows processed at a time in the model.
MaxBatch == 2

\* `const batchSize = 20` in main(), scaled down to MaxBatch so that the
\* interleavings of one batch stay enumerable.  Every formula below is stated
\* in terms of batchSize, not of the number.
batchSize == MaxBatch

\* ------------------------------------------------------------------------
\* Strings
\* ------------------------------------------------------------------------
S_http == <<"h", "t", "t", "p">>
S_unknownSeg == <<"_", "u", "n", "k", "n", "o", "w", "n">>
S_unknownDate == <<"_", "u", "n", "k", "n", "o", "w", "n", "_", "d", "a", "t", "e">>
S_untitled == <<"u", "n", "t", "i", "t", "l", "e", "d">>
S_unknown == <<"u", "n", "k", "n", "o", "w", "n">>
S_by == <<"_", "b", "y", "_">>
S_NaN == <<"N", "a", "N">>
S_downloads == <<"d", "o", "w", "n", "l", "o", "a", "d", "s">>
S_jpg == <<".", "j", "p", "g">>
S_json == <<".", "j", "s", "o", "n">>
S_manifest == <<"m", "a", "n", "i", "f", "e", "s", "t", ".", "j", "s", "o", "n">>

\* row[name], with JavaScript's undefined for a missing column
Has(row, name) == name \in DOMAIN row

\* JavaScript truthiness of row[name]: neither undefined nor the empty string
Truthy(row, name) == Has(row, name) /\ row[name] # <<>>

\* String.prototype.startsWith
StartsWith(s, prefix) ==
    /\ Len(s) >= Len(prefix)
    /\ SubSeq(s, 1, Len(prefix)) = prefix

\* String.prototype.split(sep) for a one-character separator: the pieces
\* between the separators, empty ones included; "" splits into one empty piece
split(s, sep) ==
    LET at == {k \in DOMAIN s : s[k] = sep}
        n == Cardinality(at)
        pos(j) == IF j = 0 THEN 0
                  ELSE IF j = n + 1 THEN Len(s) + 1
                  ELSE CHOOSE k \in at : Cardinality({m \in at : m <= k}) = j
    IN  [j \in 1..(n + 1) |-> SubSeq(s, pos(j - 1) + 1, pos(j) - 1)]

\* String.prototype.substring(0, n)
Substring0(s, n) == IF Len(s) <= n THEN s ELSE SubSeq(s, 1, n)

\* the character class [\/\\?%*:|"<>] of sanitizeForPath
IllegalChars == {"/", "\\", "?", "%", "*", ":", "|", "\"", "<", ">"}

UpperChars == <<"A", "B", "C", "D", "E", "F", "G", "H", "I", "J", "K", "L", "M",
                "N", "O", "P", "Q", "R", "S", "T", "U", "V", "W", "X", "Y", "Z">>
LowerChars == <<"a", "b", "c", "d", "e", "f", "g", "h", "i", "j", "k", "l", "m",
                "n", "o", "p", "q", "r", "s", "t", "u", "v", "w", "x", "y", "z">>
DigitChars == {"0", "1", "2", "3", "4", "5", "6", "7", "8", "9"}
SpaceChars == {" ", "\t", "\n"}

Range(f) == {f[x] : x \in DOMAIN f}

\* String.prototype.toLowerCase, one character
LowerChar(c) ==
    IF c \in Range(UpperChars)
    THEN LowerChars[CHOOSE k \in DOMAIN UpperChars : UpperChars[k] = c]
    ELSE c

toLowerCase(s) == [k \in DOMAIN s |-> LowerChar(s[k])]

\* .replace(/[^a-z0-9\s]/g, "")
StripSpecial(s) ==
    SelectSeq(s, LAMBDA c : c \in Range(LowerChars) \cup DigitChars \cup SpaceChars)

\* .replace(/\s+/g, "_"): every maximal run of whitespace becomes one "_"
RECURSIVE CollapseSpaces(_)
CollapseSpaces(s) ==
    IF s = <<>> THEN <<>>
    ELSE IF Head(s) \in SpaceChars
         THEN IF Len(s) > 1 /\ s[2] \in SpaceChars
              THEN CollapseSpaces(Tail(s))
              ELSE <<"_">> \o CollapseSpaces(Tail(s))
         ELSE <<Head(s)>> \o CollapseSpaces(Tail(s))

\* function sanitizeForPath(text)
sanitizeForPath(row, name) ==
    IF ~Truthy(row, name) THEN S_unknownSeg
    ELSE [k \in DOMAIN row[name] |->
            IF row[name][k] \in IllegalChars THEN "_" ELSE row[name][k]]

\* the value of a two-digit field
DigitValue == [c \in DigitChars |->
                 CHOOSE v \in 0..9 : <<"0", "1", "2", "3", "4", "5", "6", "7", "8", "9">>[v + 1] = c]
TwoDigits(s, k) == 10 * DigitValue[s[k]] + DigitValue[s[k + 1]]

\* new Date(s) is a valid date.  Modelled for the ISO form YYYY-MM-DD with a
\* month 01..12 and a day 01..28, which every engine parses, and for strings
\* without any digit, which none does; what an engine makes of other strings
\* is implementation-defined and no such string is among the inputs.
IsDateString(s) ==
    /\ Len(s) = 10
    /\ \A k \in {1, 2, 3, 4, 6, 7, 9, 10} : s[k] \in DigitChars
    /\ s[5] = "-" /\ s[8] = "-"
    /\ TwoDigits(s, 6) \in 1..12
    /\ TwoDigits(s, 9) \in 1..28

\* new Date(s).getFullYear(), as String() prints it: the year of the date, or
\* NaN for an invalid date.  For the dates the inputs hold (the middle of a
\* year) the local year is the written year in every time zone.

getFullYear(s) == IF IsDateString(s) THEN SubSeq(s, 1, 4) ELSE S_NaN

\* const year = row["photo_submitted_at"] ? new Date(..).getFullYear() : "_unknown_date"
YearOf(row) ==
    IF Truthy(row, "photo_submitted_at")
    THEN getFullYear(row["photo_submitted_at"])
    ELSE S_unknownDate

\* function generateDescriptiveFilename(row)
generateDescriptiveFilename(row) ==
    LET description == IF Truthy(row, "ai_description")
                       THEN row["ai_description"] ELSE S_untitled
        photographer == IF Truthy(row, "photographer_username")
                        THEN row["photographer_username"] ELSE S_unknown
        descriptionSlug ==
            Substring0(CollapseSpaces(StripSpecial(toLowerCase(description))), 50)
    IN  descriptionSlug \o S_by \o photographer \o <<"_">> \o row["photo_id"]

\* path.join(...parts) on POSIX: the parts joined by "/", then normalized --
\* empty and "." segments dropped, ".." taking back the segment before it.
RECURSIVE NormalizeSegments(_, _)
NormalizeSegments(segs, out) ==
    IF segs = <<>> THEN out
    ELSE IF Head(segs) \in {<<>>, <<".">>}
         THEN NormalizeSegments(Tail(segs), out)
    ELSE IF Head(segs) = <<".", ".">> /\ out # <<>> /\ out[Len(out)] # <<".", ".">>
         THEN NormalizeSegments(Tail(segs), SubSeq(out, 1, Len(out) - 1))
    ELSE NormalizeSegments(Tail(segs), Append(out, Head(segs)))

RECURSIVE JoinSlash(_)
JoinSlash(segs) ==
    IF segs = <<>> THEN <<>>
    ELSE IF Len(segs) = 1 THEN segs[1]
    ELSE segs[1] \o <<"/">> \o JoinSlash(Tail(segs))

pathJoin(parts) ==
    LET joined == JoinSlash(parts)
        norm == JoinSlash(NormalizeSegments(split(joined, "/"), <<>>))
    IN  IF norm = <<>> THEN <<".">> ELSE norm

\* path.join("downloads", photographer, String(year))
targetDir(row) ==
    pathJoin(<<S_downloads, sanitizeForPath(row, "photographer_username"), YearOf(row)>>)

imagePath(row) == pathJoin(<<targetDir(row), generateDescriptiveFilename(row) \o S_jpg>>)
jsonPath(row) == pathJoin(<<targetDir(row), generateDescriptiveFilename(row) \o S_json>>)
manifestPath == pathJoin(<<S_downloads, S_manifest>>)

\* the validity test without its scheme check
IsInvalid_noScheme(row) ==
    \/ ~Truthy(row, "photo_id")
    \/ ~Truthy(row, "photo_image_url")

\* if (!id || !url || !url.startsWith("http"))  -- the row is skipped
IsInvalid(row) ==
    \/ ~Truthy(row, "photo_id")
    \/ ~Truthy(row, "photo_image_url")
    \/ ~StartsWith(row["photo_image_url"], S_http)


\* ------------------------------------------------------------------------
\* Input: the rows of photos.csv
\* ------------------------------------------------------------------------
S_url == S_http \o <<":", "/", "/", "u">>
S_ftp == <<"f", "t", "p", ":", "/", "/", "u">>

\* The rows a CSV file can hold, one of each kind the validity test tells
\* apart, and two valid rows with different ids.  A sequence may hold the same
\* row twice (photo_id is assumed unique, not enforced).
RowKinds ==
    { [photo_id |-> <<"a">>, photo_image_url |-> S_url],
      [photo_id |-> <<"b">>, photo_image_url |-> S_url],
      [photo_id |-> <<>>, photo_image_url |-> S_url],
      [photo_image_url |-> S_url],
      [photo_id |-> <<"c">>, photo_image_url |-> <<>>],
      [photo_id |-> <<"c">>],
      [photo_id |-> <<"c">>, photo_image_url |-> S_ftp] }

RowSeqs == UNION {[1..n -> RowKinds] : n \in 0..MaxRows}

\* For the liveness check, whose cost grows faster with the state space: one
\* valid and one invalid row.  Progress depends on a row only through
\* IsInvalid, and every failure of every call is still drawn for each row.
LiveRowKinds ==
    { [photo_id |-> <<"a">>, photo_image_url |-> S_url],
      [photo_id |-> <<"c">>, photo_image_url |-> S_ftp] }

LiveRowSeqs == UNION {[1..n -> LiveRowKinds] : n \in 0..MaxRows}

\* Rows for the path builder and the manifest entry: valid rows whose other
\* columns are absent, empty, plain, or hold what the builder has to cope
\* with (characters illegal in a path, upper case, runs of spaces, a
\* description longer than the slug, a timestamp that is no date).
S_traversalId == <<"x", "/", ".", ".", "/", ".", ".", "/", ".", ".", "/",
                   "m", "a", "n", "i", "f", "e", "s", "t">>
S_longDescription == [k \in 1..52 |-> IF k % 7 = 0 THEN " " ELSE "a"]

PathIds == {<<"a">>, S_traversalId}
PathAuthors == {<<>>, <<"A", "l">>, <<"a", ":", "b">>}
PathDates == {<<>>, <<"2", "0", "2", "3", "-", "0", "6", "-", "1", "5">>,
              <<"u", "n", "k", "n", "o", "w", "n">>}
PathDescriptions == {<<>>, <<"R", "e", "d", " ", " ", "S", "k", "y", "!">>,
                     S_longDescription}

\* a row with the given columns; `cols` says which of the optional ones the
\* CSV has
PathRow(id, author, date, description, cols) ==
    [c \in {"photo_id", "photo_image_url"} \cup cols |->
        CASE c = "photo_id" -> id
          [] c = "photo_image_url" -> S_url
          [] c = "photographer_username" -> author
          [] c = "photo_submitted_at" -> date
          [] c = "ai_description" -> description]

PathRowKinds ==
    {PathRow(id, a, d, desc, cols) :
        id \in PathIds, a \in PathAuthors, d \in PathDates,
        desc \in PathDescriptions,
        cols \in {{}, {"photographer_username", "photo_submitted_at", "ai_description"}}}

PathRowSeqs == {<<r>> : r \in PathRowKinds}

\* Rows for two runs over the same file: one id listed with two different
\* URLs, so that both rows have the same storage path and different bytes.
S_url2 == S_http \o <<":", "/", "/", "v">>

IdemRowKinds ==
    { [photo_id |-> <<"a">>, photo_image_url |-> S_url],
      [photo_id |-> <<"a">>, photo_image_url |-> S_url2] }

IdemRowSeqs == UNION {[1..n -> IdemRowKinds] : n \in 1..MaxRows}

\* const targetDir / imagePath / jsonPath of processBatch: the paths of every
\* valid row a file can hold, computed once per row (the row test returns
\* before them for the others); @@ makes the table an explicit function
StoredPaths ==
    [r \in {k \in RowKinds \cup LiveRowKinds \cup PathRowKinds \cup IdemRowKinds :
                ~IsInvalid(k)} |->
        [targetDir |-> targetDir(r), imagePath |-> imagePath(r), jsonPath |-> jsonPath(r)]]
    @@ <<>>

\* ------------------------------------------------------------------------
\* State
\* ------------------------------------------------------------------------
VARIABLES
    rows,         \* `results`: the rows read from photos.csv
    pc,           \* where main's 'end' handler stands
    i,            \* loop variable of main (0-based)
    batch,        \* the rows (1-based indices) whose promises allSettled awaits
    task,         \* per row: where its async callback of processBatch stands
    err,          \* per row: what its promise was rejected with
    manifestData, \* `manifestData` of main
    dirs,         \* directories that exist below downloads/
    files,        \* files on disk written through a row's storage path:
                  \* path -> last writer (a row, or 0 for main)
    manifestFile, \* <<>>, or <<f>> with f.data the array main wrote to
                  \* downloads/manifest.json and f.whole whether all of it
    console,      \* per row: what processBatch logged for it
    mainLog,      \* what main logged about the manifest
    io,           \* history: per row, the I/O operations issued for it
    outcomes,     \* history: per row, how many times its promise settled
    settleOrder,  \* history: rows of `batch` in the order their promises settled
    resp,         \* history: per row, the results its awaited calls came back with
    groups,       \* history: the batches dispatched so far
    manifestWrites, \* history: number of writeFile calls for manifest.json
    firstRun      \* <<>>, or <<d>> with d the disk an earlier run of the
                  \* program over the same photos.csv ended with

vars == <<rows, pc, i, batch, task, err, manifestData, dirs, files, manifestFile,
          console, mainLog, io, outcomes, settleOrder, resp, groups, manifestWrites,
          firstRun>>

N == Len(rows)
RowIds == 1..N

Min(a, b) == IF a < b THEN a ELSE b

Settled(t) == task[t] \in {"fulfilled", "rejected"}
Started(t) == task[t] # "idle"
InFlight(t) == Started(t) /\ ~Settled(t)

\* the state when photos.csv has been read and before the 'end' handler runs
Start ==
    /\ pc = "reading"
    /\ i = 0
    /\ batch = <<>>
    /\ task = [t \in 1..Len(rows) |-> "idle"]
    /\ err = [t \in 1..Len(rows) |-> "none"]
    /\ manifestData = <<>>
    /\ dirs = {}
    /\ files = <<>>
    /\ manifestFile = <<>>
    /\ console = [t \in 1..Len(rows) |-> "none"]
    /\ mainLog = "none"
    /\ io = [t \in 1..Len(rows) |-> <<>>]
    /\ outcomes = [t \in 1..Len(rows) |-> 0]
    /\ settleOrder = <<>>
    /\ resp = [t \in 1..Len(rows) |-> <<>>]
    /\ groups = <<>>
    /\ manifestWrites = 0
    /\ firstRun = <<>>

Init == rows \in RowSeqs /\ Start

PathInit == rows \in PathRowSeqs /\ Start

IdemInit == rows \in IdemRowSeqs /\ Start

\* ------------------------------------------------------------------------
\* processBatch
\* ------------------------------------------------------------------------
\* a slice that takes one element too many
slice_wide(len, start, end) ==
    [k \in 1..(Min(end + 1, len) - Min(start, len)) |-> start + k]

\* a slice that always starts at the first element
slice_fromFirst(len, start, end) ==
    [k \in 1..Min(end, len) |-> k]

\* Array.prototype.slice(start, end) on an array of length len, as the
\* sequence of the 1-based indices it takes
slice(len, start, end) ==
    [k \in 1..(Min(end, len) - Min(start, len)) |-> start + k]

\* The manifest entry a fulfilled callback returns.  `row` is a history field:
\* the index of the row the entry was made from.
Entry(t) ==
    [id |-> rows[t]["photo_id"],
     meta |-> [c \in DOMAIN rows[t] \cap
                 {"ai_description", "photographer_username", "photo_location_country"}
               |-> rows[t][c]],
     tags |-> split(IF Truthy(rows[t], "ai_description")
                    THEN rows[t]["ai_description"] ELSE <<>>, " "),
     path |-> StoredPaths[rows[t]].imagePath,
     row |-> t]

\* processBatch(rows, start, batchSize): every callback of batch.map runs up to
\* its first await.  An invalid row's promise is rejected on the spot, without
\* a log line; a valid row computes its target directory and issues mkdir.
ProcessBatch(start) ==
    LET b == slice(N, start, start + batchSize)
        inB == Range(b)
    IN  /\ batch' = b
        /\ task' = [t \in RowIds |->
                     IF t \in inB
                     THEN IF IsInvalid(rows[t]) THEN "rejected" ELSE "mkdir"
                     ELSE task[t]]
        /\ err' = [t \in RowIds |->
                    IF t \in inB
                    THEN IF IsInvalid(rows[t]) THEN "invalid" ELSE "none"
                    ELSE err[t]]
        /\ io' = [t \in RowIds |->
                   IF t \in inB /\ ~IsInvalid(rows[t])
                   THEN Append(io[t], "mkdir") ELSE io[t]]
        /\ outcomes' = [t \in RowIds |->
                         IF t \in inB /\ IsInvalid(rows[t])
                         THEN outcomes[t] + 1 ELSE outcomes[t]]
        /\ settleOrder' = SelectSeq(b, LAMBDA t : IsInvalid(rows[t]))
        /\ groups' = Append(groups, b)
        /\ pc' = "await_batch"
        /\ UNCHANGED <<manifestWrites>>

\* fsp.writeFile(manifestPath, JSON.stringify(manifestData, null, 2)) is issued
WriteManifest ==
    /\ pc' = "await_manifest"
    /\ manifestWrites' = manifestWrites + 1
    /\ UNCHANGED <<batch, task, err, io, outcomes, settleOrder, groups>>

\* a loop test that stops one row early
LoopTest_early(next, len) == next < len - 1

\* the loop test `i < results.length`
LoopTest(next, len) == next < len

\* a loop step that skips a row
LoopStep_skip(cur) == cur + batchSize + 1

\* the loop step `i += batchSize`
LoopStep(cur) == cur + batchSize

\* for (let i = ...; i < results.length; ...) { await processBatch(...) } then
\* the manifest write: what main does from the loop test on, with i = next
LoopFrom(next) ==
    /\ i' = next
    /\ IF LoopTest(next, N) THEN ProcessBatch(next) ELSE WriteManifest

\* ------------------------------------------------------------------------
\* The callback of batch.map, one action per await
\* ------------------------------------------------------------------------
\* The callback run on its own: where it stands after its awaited calls came
\* back with the results r, given nothing but its row
Stages == <<"mkdir", "fetch", "buffer", "writeImage", "writeJson", "fulfilled">>

TransferAlone(row, r) ==
    IF IsInvalid(row) THEN "rejected"
    ELSE IF \E k \in DOMAIN r : r[k] # "ok" THEN "rejected"
    ELSE Stages[Len(r) + 1]

\* catch (err) { console.error(...); return Promise.reject(err); }
Reject(t, e) ==
    /\ resp' = [resp EXCEPT ![t] = Append(@, e)]
    /\ task' = [task EXCEPT ![t] = "rejected"]
    /\ err' = [err EXCEPT ![t] = e]
    /\ console' = [console EXCEPT ![t] = "error"]
    /\ outcomes' = [outcomes EXCEPT ![t] = @ + 1]
    /\ settleOrder' = Append(settleOrder, t)

\* the awaited call returned normally: nothing is settled or logged yet
Ok(t) ==
    /\ resp' = [resp EXCEPT ![t] = Append(@, "ok")]
    /\ UNCHANGED <<err, console, outcomes, settleOrder>>

\* the write of one file: the last writer of a path owns its content
WriteFile(fs, path, t, whole) ==
    [p \in DOMAIN fs \cup {path} |->
        IF p = path THEN [by |-> t, whole |-> whole] ELSE fs[p]]

\* what a failed fsp.writeFile leaves at `path`: nothing new, or a part
AfterFailedWrite(fs, path, t, part) ==
    IF part THEN WriteFile(fs, path, t, FALSE) ELSE fs

\* a mkdir whose failure is ignored: the GET is issued either way
MkdirDone_ignoreFailure(t) ==
    /\ task[t] = "mkdir"
    /\ \E ok \in BOOLEAN :
        /\ dirs' = IF ok THEN dirs \cup {StoredPaths[rows[t]].targetDir} ELSE dirs
        /\ resp' = [resp EXCEPT ![t] = Append(@, IF ok THEN "ok" ELSE "mkdir")]
    /\ task' = [task EXCEPT ![t] = "fetch"]
    /\ io' = [io EXCEPT ![t] = Append(@, "get")]
    /\ UNCHANGED <<err, console, outcomes, settleOrder>>
    /\ UNCHANGED <<rows, firstRun, pc, i, batch, manifestData, files, manifestFile, mainLog,
                   groups, manifestWrites>>

\* await fsp.mkdir(targetDir, { recursive: true }) returns or throws; on return
\* the file names are built and downloadImage issues fetch(url)
MkdirDone(t) ==
    /\ task[t] = "mkdir"
    /\ \E ok \in BOOLEAN :
        IF ok
        THEN /\ dirs' = dirs \cup {StoredPaths[rows[t]].targetDir}
             /\ task' = [task EXCEPT ![t] = "fetch"]
             /\ io' = [io EXCEPT ![t] = Append(@, "get")]
             /\ Ok(t)
        ELSE /\ Reject(t, "mkdir")
             /\ UNCHANGED <<dirs, io>>
    /\ UNCHANGED <<rows, firstRun, pc, i, batch, manifestData, files, manifestFile, mainLog,
                   groups, manifestWrites>>

\* a fetch that is issued once more when it failed for the first time
FetchDone_retry(t) ==
    /\ task[t] = "fetch"
    /\ \E res \in {"ok", "not_ok", "error"} :
        IF res = "ok"
        THEN /\ task' = [task EXCEPT ![t] = "buffer"]
             /\ Ok(t)
             /\ UNCHANGED io
        ELSE IF Len(io[t]) < 3
        THEN /\ io' = [io EXCEPT ![t] = Append(@, "get")]
             /\ UNCHANGED <<task, resp, err, console, outcomes, settleOrder>>
        ELSE /\ Reject(t, IF res = "not_ok" THEN "status" ELSE "fetch")
             /\ UNCHANGED io
    /\ UNCHANGED <<rows, firstRun, pc, i, batch, manifestData, dirs, files, manifestFile,
                   mainLog, groups, manifestWrites>>

\* await fetch(url) returns a response or throws; if (!res.ok) throw;
\* otherwise res.buffer() is awaited
FetchDone(t) ==
    /\ task[t] = "fetch"
    /\ \E res \in {"ok", "not_ok", "error"} :
        IF res = "ok"
        THEN /\ task' = [task EXCEPT ![t] = "buffer"]
             /\ Ok(t)
        ELSE Reject(t, IF res = "not_ok" THEN "status" ELSE "fetch")
    /\ UNCHANGED <<rows, firstRun, pc, i, batch, manifestData, dirs, files, manifestFile,
                   mainLog, io, groups, manifestWrites>>

\* await res.buffer() returns the body or throws; on return
\* fsp.writeFile(filePath, buffer) is issued
BufferDone(t) ==
    /\ task[t] = "buffer"
    /\ \E ok \in BOOLEAN :
        IF ok
        THEN /\ task' = [task EXCEPT ![t] = "writeImage"]
             /\ io' = [io EXCEPT ![t] = Append(@, "writeImage")]
             /\ Ok(t)
        ELSE /\ Reject(t, "buffer")
             /\ UNCHANGED io
    /\ UNCHANGED <<rows, firstRun, pc, i, batch, manifestData, dirs, files, manifestFile,
                   mainLog, groups, manifestWrites>>

\* the image write returns or throws; on return downloadImage returns and
\* fsp.writeFile(jsonPath, JSON.stringify(row, null, 2)) is issued
ImageWriteDone(t) ==
    /\ task[t] = "writeImage"
    /\ \E ok \in BOOLEAN :
        IF ok
        THEN /\ files' = WriteFile(files, StoredPaths[rows[t]].imagePath, t, TRUE)
             /\ task' = [task EXCEPT ![t] = "writeJson"]
             /\ io' = [io EXCEPT ![t] = Append(@, "writeJson")]
             /\ Ok(t)
        ELSE /\ \E part \in BOOLEAN :
                  files' = AfterFailedWrite(files, StoredPaths[rows[t]].imagePath, t, part)
             /\ Reject(t, "writeImage")
             /\ UNCHANGED io
    /\ UNCHANGED <<rows, firstRun, pc, i, batch, manifestData, dirs, manifestFile, mainLog,
                   groups, manifestWrites>>

\* a metadata write whose failure is swallowed: the callback still returns
\* the manifest entry
JsonWriteDone_swallow(t) ==
    /\ task[t] = "writeJson"
    /\ \E ok \in BOOLEAN :
        /\ files' = IF ok THEN WriteFile(files, StoredPaths[rows[t]].jsonPath, t, TRUE) ELSE files
        /\ resp' = [resp EXCEPT ![t] = Append(@, IF ok THEN "ok" ELSE "writeJson")]
    /\ task' = [task EXCEPT ![t] = "fulfilled"]
    /\ console' = [console EXCEPT ![t] = "saved"]
    /\ outcomes' = [outcomes EXCEPT ![t] = @ + 1]
    /\ settleOrder' = Append(settleOrder, t)
    /\ UNCHANGED err
    /\ UNCHANGED <<rows, firstRun, pc, i, batch, manifestData, dirs, manifestFile, mainLog,
                   io, groups, manifestWrites>>

\* the metadata write returns or throws; on return the success line is logged
\* and the callback returns the manifest entry
JsonWriteDone(t) ==
    /\ task[t] = "writeJson"
    /\ \E ok \in BOOLEAN :
        IF ok
        THEN /\ files' = WriteFile(files, StoredPaths[rows[t]].jsonPath, t, TRUE)
             /\ task' = [task EXCEPT ![t] = "fulfilled"]
             /\ console' = [console EXCEPT ![t] = "saved"]
             /\ outcomes' = [outcomes EXCEPT ![t] = @ + 1]
             /\ settleOrder' = Append(settleOrder, t)
             /\ resp' = [resp EXCEPT ![t] = Append(@, "ok")]
             /\ UNCHANGED err
        ELSE /\ \E part \in BOOLEAN :
                  files' = AfterFailedWrite(files, StoredPaths[rows[t]].jsonPath, t, part)
             /\ Reject(t, "writeJson")
    /\ UNCHANGED <<rows, firstRun, pc, i, batch, manifestData, dirs, manifestFile, mainLog,
                   io, groups, manifestWrites>>

\* ------------------------------------------------------------------------
\* main
\* ------------------------------------------------------------------------
\* Promise.race: resolves once some promise has settled
allSettled_race(b) == \E k \in DOMAIN b : Settled(b[k])

\* Promise.all: resolves once every promise is fulfilled or one is rejected
allSettled_failFast(b) ==
    \/ \A k \in DOMAIN b : task[b[k]] = "fulfilled"
    \/ \E k \in DOMAIN b : task[b[k]] = "rejected"

\* a join that waits for every promise to be fulfilled
allSettled_fulfilledOnly(b) == \A k \in DOMAIN b : task[b[k]] = "fulfilled"

\* Promise.allSettled(promises) resolves once every promise has settled
allSettled(b) == \A k \in DOMAIN b : Settled(b[k])

\* results in the order the promises settled
batchResults_bySettlement(b, order) == order

\* the array allSettled resolves to: one result per promise, in the order of
\* the promises, whatever order they settled in
batchResults(b, order) == b

\* batchResults.forEach(result => { if (fulfilled && value) manifestData.push(value) })
Collect(md, results) ==
    md \o [k \in 1..Len(SelectSeq(results, LAMBDA t : task[t] = "fulfilled")) |->
             Entry(SelectSeq(results, LAMBDA t : task[t] = "fulfilled")[k])]

\* .on("end", ...): the rows are loaded; main enters its loop
OnEnd ==
    /\ pc = "reading"
    /\ LoopFrom(0)
    /\ UNCHANGED <<rows, firstRun, manifestData, dirs, files, manifestFile, console, mainLog,
                   resp>>

\* `await processBatch(...)` resumes: the results are collected, i advances,
\* and main dispatches the next batch or issues the manifest write
BatchDone ==
    /\ pc = "await_batch"
    /\ allSettled(batch)
    /\ manifestData' = Collect(manifestData, batchResults(batch, settleOrder))
    /\ LoopFrom(LoopStep(i))
    /\ UNCHANGED <<rows, firstRun, dirs, files, manifestFile, console, mainLog, resp>>

\* what a write of manifest.json does to a file a row has stored at that
\* very path
OverManifestPath(fs, whole) ==
    IF manifestPath \in DOMAIN fs THEN WriteFile(fs, manifestPath, 0, whole) ELSE fs

\* the manifest write returns or throws; either way main logs and finishes
ManifestWriteDone ==
    /\ pc = "await_manifest"
    /\ \E ok \in BOOLEAN :
        IF ok
        THEN /\ manifestFile' = <<[whole |-> TRUE, data |-> manifestData]>>
             /\ files' = OverManifestPath(files, TRUE)
             /\ mainLog' = "created"
        ELSE /\ \E part \in BOOLEAN :
                  /\ manifestFile' = IF part
                                     THEN <<[whole |-> FALSE, data |-> manifestData]>>
                                     ELSE manifestFile
                  /\ files' = IF part THEN OverManifestPath(files, FALSE) ELSE files
             /\ mainLog' = "error"
    /\ pc' = "done"
    /\ UNCHANGED <<rows, firstRun, i, batch, task, err, manifestData, dirs, console,
                   io, outcomes, settleOrder, resp, groups, manifestWrites>>

Next ==
    \/ OnEnd
    \/ BatchDone
    \/ ManifestWriteDone
    \/ \E t \in RowIds : MkdirDone(t)
    \/ \E t \in RowIds : FetchDone(t)
    \/ \E t \in RowIds : BufferDone(t)
    \/ \E t \in RowIds : ImageWriteDone(t)
    \/ \E t \in RowIds : JsonWriteDone(t)

Spec == Init /\ [][Next]_vars

\* Fair scheduling with every awaited call coming back: some enabled handler
\* always runs.
LiveInit == rows \in LiveRowSeqs /\ Start

LiveSpec == LiveInit /\ [][Next]_vars /\ WF_vars(Next)

\* What the program itself guarantees: its handlers run when their awaited
\* call has come back, and the local filesystem answers.  Nothing in
\* downloadImage bounds the time fetch(url) may take, so no fairness is
\* assumed for FetchDone.
AnswersWithoutNetwork ==
    \/ OnEnd
    \/ BatchDone
    \/ ManifestWriteDone
    \/ \E t \in RowIds : MkdirDone(t)
    \/ \E t \in RowIds : BufferDone(t)
    \/ \E t \in RowIds : ImageWriteDone(t)
    \/ \E t \in RowIds : JsonWriteDone(t)

NoResponseSpec == Spec /\ WF_vars(AnswersWithoutNetwork)

\* One row at a time, with every column the path builder reads drawn from
\* PathRowKinds.
PathSpec == PathInit /\ [][Next]_vars

\* every valid row was stored and the manifest written: nothing failed
CleanRun ==
    /\ pc = "done"
    /\ mainLog = "created"
    /\ \A t \in RowIds : err[t] \in {"none", "invalid"}

\* The program is started again over the same photos.csv and the same
\* downloads folder after a run in which nothing failed: everything in memory
\* starts afresh, the disk is what the first run left.
Restart ==
    /\ CleanRun
    /\ firstRun = <<>>
    /\ firstRun' = <<[files |-> files, manifestFile |-> manifestFile]>>
    /\ pc' = "reading"
    /\ i' = 0
    /\ batch' = <<>>
    /\ task' = [t \in RowIds |-> "idle"]
    /\ err' = [t \in RowIds |-> "none"]
    /\ manifestData' = <<>>
    /\ console' = [t \in RowIds |-> "none"]
    /\ mainLog' = "none"
    /\ io' = [t \in RowIds |-> <<>>]
    /\ outcomes' = [t \in RowIds |-> 0]
    /\ settleOrder' = <<>>
    /\ resp' = [t \in RowIds |-> <<>>]
    /\ groups' = <<>>
    /\ manifestWrites' = 0
    /\ UNCHANGED <<rows, dirs, files, manifestFile>>

\* Two runs, one after the other, over rows that share a storage path.
IdemSpec == IdemInit /\ [][Next \/ Restart]_vars

\* ------------------------------------------------------------------------
\* Properties
\* ------------------------------------------------------------------------
TransferErrors == {"mkdir", "fetch", "status", "buffer", "writeImage", "writeJson"}

\* C1 -- Group barrier: a transfer that has started belongs to a dispatched
\* group, and a transfer in flight belongs to the group dispatched last; so
\* once group k+1 has been dispatched every transfer of group k is settled,
\* and transfers of two groups are never in flight together.
C1_GroupBarrier ==
    /\ \A t \in RowIds : Started(t) => \E k \in DOMAIN groups : t \in Range(groups[k])
    /\ \A k \in DOMAIN groups : \A t \in Range(groups[k]) :
          InFlight(t) => k = Len(groups)
    /\ \A k \in DOMAIN groups : \A t \in Range(groups[k]) :
          k < Len(groups) => Settled(t)

\* a transfer of the second group is in flight after the first group ran two
\* real transfers, one of which failed
C1_Witness ==
    /\ Len(groups) = 2
    /\ \E t \in Range(groups[2]) : InFlight(t)
    /\ \E s, t \in Range(groups[1]) :
          /\ task[s] = "fulfilled"
          /\ task[t] = "rejected" /\ err[t] \in TransferErrors

\* C2 -- Concurrency bound: the transfers started and not yet settled are at
\* most batchSize, however many rows there are.
C2_ConcurrencyBound == Cardinality({t \in RowIds : InFlight(t)}) <= batchSize

\* a full group in flight, with more rows waiting than one group holds
C2_Witness ==
    /\ N > batchSize
    /\ Cardinality({t \in RowIds : InFlight(t)}) = batchSize

\* C3 -- Failure isolation: every transfer stands where it would stand had it
\* run alone with the results its own calls came back with, whatever happened
\* to its siblings; and the run goes on to the manifest only with every
\* transfer of every group settled.
C3_FailureIsolation ==
    /\ \A t \in RowIds : Started(t) => task[t] = TransferAlone(rows[t], resp[t])
    /\ pc \in {"await_manifest", "done"} => \A t \in RowIds : Settled(t)

\* the run is over; in the first group a transfer failed and its sibling still
\* succeeded, and the transfer of the later group succeeded too
C3_Witness ==
    /\ pc = "done"
    /\ Len(groups) = 2
    /\ \E s, t \in Range(groups[1]) :
          /\ task[s] = "rejected" /\ err[s] \in TransferErrors
          /\ task[t] = "fulfilled"
    /\ \E t \in Range(groups[2]) : task[t] = "fulfilled"

\* the three ways a record is invalid, in the words of the claim
C4_InvalidRecord(row) ==
    \/ "photo_id" \notin DOMAIN row
    \/ row["photo_id"] = <<>>
    \/ "photo_image_url" \notin DOMAIN row
    \/ row["photo_image_url"] = <<>>
    \/ Len(row["photo_image_url"]) < 4
    \/ SubSeq(row["photo_image_url"], 1, 4) # <<"h", "t", "t", "p">>

\* C4 -- An invalid record settles as a failure with no network or filesystem
\* activity: no mkdir, no GET and no write is issued for it, and no file on
\* disk was written by it.
C4_InvalidNoActivity ==
    \A t \in RowIds : C4_InvalidRecord(rows[t]) =>
        /\ io[t] = <<>>
        /\ \A p \in DOMAIN files : files[p].by # t
        /\ Started(t) => task[t] = "rejected" /\ err[t] = "invalid"

\* the run is over with one invalid row of each kind beside a row that was
\* transferred
C4_Witness ==
    /\ pc = "done"
    /\ \E t \in RowIds : "photo_id" \notin DOMAIN rows[t] /\ task[t] = "rejected"
    /\ \E t \in RowIds :
          /\ Truthy(rows[t], "photo_image_url")
          /\ ~StartsWith(rows[t]["photo_image_url"], S_http)
          /\ task[t] = "rejected"
    /\ \E t \in RowIds : task[t] = "fulfilled"

\* the rows whose transfer succeeded, in row order
RECURSIVE FulfilledUpTo(_)
FulfilledUpTo(n) ==
    IF n = 0 THEN <<>>
    ELSE IF task[n] = "fulfilled"
         THEN Append(FulfilledUpTo(n - 1), n)
         ELSE FulfilledUpTo(n - 1)

\* C5 -- The manifest written at the end of the run holds exactly one entry
\* for each row whose transfer succeeded, none for a failed one, in row order.
C5_ManifestInRowOrder ==
    (pc = "done" /\ mainLog = "created") =>
        /\ Len(manifestFile) = 1
        /\ manifestFile[1].whole
        /\ Len(manifestFile[1].data) = Len(FulfilledUpTo(N))
        /\ \A k \in DOMAIN manifestFile[1].data :
              /\ manifestFile[1].data[k].row = FulfilledUpTo(N)[k]
              /\ manifestFile[1].data[k].id = rows[FulfilledUpTo(N)[k]]["photo_id"]
              /\ manifestFile[1].data[k].path = StoredPaths[rows[FulfilledUpTo(N)[k]]].imagePath

\* the manifest is written, and two transfers of one group that both
\* succeeded settled in the reverse of their row order
C5_Witness ==
    /\ pc = "done" /\ mainLog = "created"
    /\ \E j, k \in DOMAIN settleOrder :
          /\ j < k
          /\ settleOrder[j] > settleOrder[k]
          /\ task[settleOrder[j]] = "fulfilled"
          /\ task[settleOrder[k]] = "fulfilled"
    /\ Len(manifestFile[1].data) = 2

\* C6 -- Exactly one outcome per record: no row ever has two outcomes, and
\* when the run ends every row has one.
C6_OneOutcomePerRecord ==
    /\ \A t \in RowIds : outcomes[t] <= 1
    /\ pc = "done" => \A t \in RowIds : outcomes[t] = 1 /\ Settled(t)

\* the run is over with rows in two groups, failed and succeeded ones
C6_Witness ==
    /\ pc = "done"
    /\ N = MaxRows
    /\ \E t \in RowIds : task[t] = "fulfilled"
    /\ \E t \in RowIds : task[t] = "rejected" /\ err[t] = "invalid"
    /\ \E t \in RowIds : task[t] = "rejected" /\ err[t] \in TransferErrors

\* ceil(n / g)
CeilDiv(n, g) == (n + g - 1) \div g

\* C7 -- Partitioning: the groups dispatched are, in order, the contiguous
\* slices of batchSize rows, the last one possibly shorter; when the loop is
\* over there are ceil(N / batchSize) of them and every row is in exactly one.
C7_Partitioning ==
    /\ \A k \in DOMAIN groups :
          /\ Len(groups[k]) = Min(batchSize, N - (k - 1) * batchSize)
          /\ \A j \in DOMAIN groups[k] : groups[k][j] = (k - 1) * batchSize + j
    /\ pc \in {"await_manifest", "done"} =>
          /\ Len(groups) = CeilDiv(N, batchSize)
          /\ \A t \in RowIds :
                Cardinality({k \in DOMAIN groups : t \in Range(groups[k])}) = 1

\* the loop is over after a full group followed by a shorter last group
C7_Witness ==
    /\ pc = "await_manifest"
    /\ Len(groups) = 2
    /\ Len(groups[1]) = batchSize
    /\ Len(groups[2]) < batchSize

\* C8 -- The manifest write is issued at most once, and only with every
\* transfer of every group settled; the file is never there before that.
C8_ManifestWrittenOnceAtEnd ==
    /\ manifestWrites <= 1
    /\ (manifestWrites > 0 \/ manifestFile # <<>>) =>
          /\ \A t \in RowIds : Settled(t)
          /\ manifestWrites = 1

\* the manifest file is on disk after two groups were processed
C8_Witness ==
    /\ manifestFile # <<>>
    /\ manifestWrites = 1
    /\ Len(groups) = 2
    /\ \E t \in RowIds : task[t] = "fulfilled"

\* the completed state of a run: every transfer settled and the manifest
\* written, or its write failed and logged
Completed ==
    /\ pc = "done"
    /\ \A t \in RowIds : Settled(t)
    /\ \/ mainLog = "created" /\ Len(manifestFile) = 1 /\ manifestFile[1].whole
       \/ mainLog = "error"

\* C9 -- Run completion: with every awaited call coming back and fair
\* scheduling, the run reaches its completed state, whatever the rows are and
\* whichever transfers fail.
C9_RunCompletes == <>Completed

\* a run of two groups completed although transfers failed and the manifest
\* write failed
C9_Witness ==
    /\ Completed
    /\ mainLog = "error"
    /\ Len(groups) = 2
    /\ \E t \in RowIds : task[t] = "rejected" /\ err[t] \in TransferErrors
    /\ \E t \in RowIds : task[t] = "rejected" /\ err[t] = "invalid"

\* C10 -- Network timeouts are handled: a transfer whose request is waiting
\* for a response eventually settles even if no response ever comes, and the
\* run eventually completes.
C10_NoResponseHandled ==
    /\ \A t \in 1..MaxRows :
          (t \in RowIds /\ task[t] = "fetch") ~> (t \in RowIds /\ Settled(t))
    /\ (\E t \in RowIds : task[t] = "fetch") ~> Completed

\* C11 -- Partial downloads are cleaned up: when a transfer has failed, no
\* image file written by it is left at its storage path.
C11_NoImageLeftAfterFailure ==
    \A t \in RowIds :
        (task[t] = "rejected" /\ err[t] \in TransferErrors) =>
            ~(/\ StoredPaths[rows[t]].imagePath \in DOMAIN files
              /\ files[StoredPaths[rows[t]].imagePath].by = t)

\* C13 -- Per-item reporting: every settled transfer has its log line, an
\* error line for a failure (an invalid row included), a success line otherwise.
C13_EveryOutcomeReported ==
    \A t \in RowIds :
        /\ task[t] = "rejected" => console[t] = "error"
        /\ task[t] = "fulfilled" => console[t] = "saved"

\* the number of GETs issued for row t
Gets(t) == Len(SelectSeq(io[t], LAMBDA o : o = "get"))

\* the fetch of row t came back with a non-2xx status or a transport error
FetchFailed(t) == \E k \in DOMAIN resp[t] : resp[t][k] \in {"status", "fetch"}

\* C18 -- At most one GET is issued per row, and when it comes back with a
\* non-2xx status or a transport error the row is rejected and neither of its
\* writes is issued nor any file written by it.
C18_OneGetNoWriteAfterFailure ==
    \A t \in RowIds :
        /\ Gets(t) <= 1
        /\ FetchFailed(t) =>
              /\ task[t] = "rejected"
              /\ "writeImage" \notin Range(io[t])
              /\ "writeJson" \notin Range(io[t])
              /\ \A p \in DOMAIN files : files[p].by # t

\* the run is over; one fetch failed on its status, one on the transport, and
\* one row was fetched with a single GET and saved
C18_Witness ==
    /\ pc = "done"
    /\ \E t \in RowIds : err[t] = "status" /\ Gets(t) = 1
    /\ \E t \in RowIds : err[t] = "fetch" /\ Gets(t) = 1
    /\ \E t \in RowIds : task[t] = "fulfilled" /\ Gets(t) = 1

AllOk == <<"ok", "ok", "ok", "ok", "ok">>

\* C19 -- Write ordering: the metadata write of a row is issued only after
\* its image write came back successfully, a row is fulfilled only after both
\* writes did, and every manifest entry is of a fulfilled row whose image and
\* metadata files are on disk.
C19_WriteOrdering ==
    /\ \A t \in RowIds :
          /\ "writeJson" \in Range(io[t]) =>
                /\ io[t] = <<"mkdir", "get", "writeImage", "writeJson">>
                /\ SubSeq(resp[t], 1, 4) = SubSeq(AllOk, 1, 4)
                /\ StoredPaths[rows[t]].imagePath \in DOMAIN files
          /\ task[t] = "fulfilled" =>
                /\ resp[t] = AllOk
                /\ io[t] = <<"mkdir", "get", "writeImage", "writeJson">>
    /\ \A k \in DOMAIN manifestData :
          /\ task[manifestData[k].row] = "fulfilled"
          /\ StoredPaths[rows[manifestData[k].row]].imagePath \in DOMAIN files
          /\ StoredPaths[rows[manifestData[k].row]].jsonPath \in DOMAIN files

\* the manifest holds an entry while another row's metadata write failed
\* after its image write
C19_Witness ==
    /\ pc = "done"
    /\ Len(manifestData) >= 1
    /\ \E t \in RowIds : err[t] = "writeJson"
    /\ \E t \in RowIds : err[t] = "writeImage"

\* C20 -- The outcome collection changes only in a step main takes while no
\* transfer is in flight and every transfer of the awaited group has settled,
\* and such a step only appends to it.
C20_ManifestDataOnlyAtBarrier ==
    [][manifestData' # manifestData =>
          /\ pc = "await_batch"
          /\ \A t \in RowIds : ~InFlight(t)
          /\ \A k \in DOMAIN batch : Settled(batch[k])
          /\ Len(manifestData') > Len(manifestData)
          /\ SubSeq(manifestData', 1, Len(manifestData)) = manifestData]_vars

\* entries of the first group are collected and a transfer of the second
\* group is in flight
C20_Witness ==
    /\ Len(groups) = 2
    /\ Len(manifestData) >= 1
    /\ \E t \in Range(groups[2]) : InFlight(t)

\* C12 -- A failure of the manifest write is recovered: the step in which
\* the write comes back ends the run, logs the failure, and leaves every file
\* the transfers wrote as it was.
C12_ManifestFailureRecovered ==
    [][(pc = "await_manifest" /\ pc' # pc) =>
          /\ pc' = "done"
          /\ mainLog' \in {"created", "error"}
          /\ mainLog' = "error" => files' = files]_vars

\* the last segment of a path
LastSegment(path) == split(path, "/")[Len(split(path, "/"))]

\* the year segment the claim expects for a row
C14_ExpectedYear(row) ==
    IF "photo_submitted_at" \in DOMAIN row /\ IsDateString(row["photo_submitted_at"])
    THEN SubSeq(row["photo_submitted_at"], 1, 4)
    ELSE S_unknownDate

\* C14 -- The year segment of the directory created for a row is
\* _unknown_date when its timestamp is absent or no valid date, and the
\* four-digit year otherwise.
C14_YearSegment ==
    \A t \in RowIds :
        (Started(t) /\ ~IsInvalid(rows[t])) =>
            /\ LastSegment(StoredPaths[rows[t]].targetDir) = C14_ExpectedYear(rows[t])
            /\ \A d \in dirs : LastSegment(d) = C14_ExpectedYear(rows[t])

NoIllegalChar(s) == \A k \in DOMAIN s : s[k] \notin IllegalChars

\* C15 -- The author segment, the year segment and the base filename built
\* for a row hold none of the characters / \ ? % * : | " < >.
C15_NoIllegalChars ==
    \A t \in RowIds :
        (Started(t) /\ ~IsInvalid(rows[t])) =>
            /\ NoIllegalChar(sanitizeForPath(rows[t], "photographer_username"))
            /\ NoIllegalChar(YearOf(rows[t]))
            /\ NoIllegalChar(generateDescriptiveFilename(rows[t]))

\* the words of a string: its maximal runs of non-whitespace characters
Words(s) ==
    SelectSeq(split([k \in DOMAIN s |-> IF s[k] \in SpaceChars THEN " " ELSE s[k]], " "),
              LAMBDA w : w # <<>>)

C16_ExpectedTags(row) ==
    IF "ai_description" \in DOMAIN row THEN Words(row["ai_description"]) ELSE <<>>

\* C16 -- The tags of a manifest entry are the words of the row's
\* description, and no tags at all for an empty or absent description.
C16_TagsAreWords ==
    \A k \in DOMAIN manifestData :
        manifestData[k].tags = C16_ExpectedTags(rows[manifestData[k].row])

\* what the file at path p holds when f is its last write: the bytes the
\* server returns for the writer's URL in an image, the writer's row in a
\* metadata file, the array of main in the manifest
ContentOf(f, p) ==
    IF f.by = 0 THEN <<f.whole, "manifest", <<>>>>
    ELSE IF p = StoredPaths[rows[f.by]].imagePath
         THEN <<f.whole, "image", rows[f.by]["photo_image_url"]>>
         ELSE <<f.whole, "metadata", rows[f.by]>>

\* the disk after this run is the disk after the first run: the same files,
\* each with the same content
SameDisk ==
    /\ DOMAIN files = DOMAIN firstRun[1].files
    /\ \A p \in DOMAIN files : ContentOf(files[p], p) = ContentOf(firstRun[1].files[p], p)
    /\ manifestFile = firstRun[1].manifestFile

\* two different valid rows of one group that write to a common path
Racing(s, t) ==
    /\ ~IsInvalid(rows[s]) /\ ~IsInvalid(rows[t])
    /\ rows[s] # rows[t]
    /\ \E g \in DOMAIN groups : s \in Range(groups[g]) /\ t \in Range(groups[g])
    /\ {StoredPaths[rows[s]].imagePath, StoredPaths[rows[s]].jsonPath}
          \cap {StoredPaths[rows[t]].imagePath, StoredPaths[rows[t]].jsonPath} # {}

\* C17 as stated -- Two runs over the same rows in which nothing fails end
\* with the same files holding the same content, whatever the rows are and
\* however the transfers of a group interleave.
C17_TwoRunsSameDisk ==
    (firstRun # <<>> /\ CleanRun) => SameDisk

\* C17 -- Two runs over the same rows in which nothing fails end with the
\* same files holding the same content, however the transfers of a group
\* interleave, provided no two different rows of one group share a storage
\* path; rows of different groups that share a path overwrite one another in
\* group order.
C17_TwoRunsSameDiskUnlessRacing ==
    (/\ firstRun # <<>>
     /\ CleanRun
     /\ \A s, t \in RowIds : ~Racing(s, t)) => SameDisk

\* the second run is over, nothing failed in either, and two rows of
\* different groups with different bytes were stored at one path
C17_Witness ==
    /\ firstRun # <<>>
    /\ CleanRun
    /\ \A s, t \in RowIds : ~Racing(s, t)
    /\ \E s, t \in RowIds :
          /\ rows[s] # rows[t]
          /\ StoredPaths[rows[s]].imagePath = StoredPaths[rows[t]].imagePath
          /\ task[s] = "fulfilled" /\ task[t] = "fulfilled"

\* C21 -- Directory creation precedes the fetch: a GET is issued for a row
\* only after its mkdir was issued and came back successfully, with the
\* target directory in place; when the mkdir fails the row is rejected, no
\* GET is issued for it and no file is written by it.
C21_MkdirBeforeGet ==
    \A t \in RowIds :
        /\ (Started(t) /\ ~IsInvalid(rows[t])) => io[t][1] = "mkdir"
        /\ "get" \in Range(io[t]) =>
              /\ SubSeq(io[t], 1, 2) = <<"mkdir", "get">>
              /\ resp[t][1] = "ok"
              /\ StoredPaths[rows[t]].targetDir \in dirs
        /\ (Len(resp[t]) >= 1 /\ resp[t][1] = "mkdir") =>
              /\ task[t] = "rejected"
              /\ err[t] = "mkdir"
              /\ io[t] = <<"mkdir">>
              /\ \A p \in DOMAIN files : files[p].by # t

\* the run is over; one row's mkdir failed and another row was fetched after
\* its mkdir and saved
C21_Witness ==
    /\ pc = "done"
    /\ \E t \in RowIds : err[t] = "mkdir" /\ io[t] = <<"mkdir">>
    /\ \E t \in RowIds : task[t] = "fulfilled" /\ Gets(t) = 1

\* the valid rows of group g stored at the image path P
Colliders(g, P) ==
    {t \in Range(groups[g]) : ~IsInvalid(rows[t]) /\ StoredPaths[rows[t]].imagePath = P}

\* the group dispatched last has settled, and row t of it shares its storage
\* path with another row of the group, all of them stored successfully
SettledCollision(t) ==
    /\ groups # <<>>
    /\ t \in Range(groups[Len(groups)])
    /\ \A k \in DOMAIN groups[Len(groups)] : Settled(groups[Len(groups)][k])
    /\ ~IsInvalid(rows[t])
    /\ Cardinality(Colliders(Len(groups), StoredPaths[rows[t]].imagePath)) >= 2
    /\ \A c \in Colliders(Len(groups), StoredPaths[rows[t]].imagePath) : task[c] = "fulfilled"

====
